---- MODULE Spec2Model ----
(***************************************************************************)
(* Model of sonar_git_mcp.py: the commit watcher, the four pipeline steps  *)
(* and the orchestrator, as one sequential state machine.  Every action is *)
(* one external call (hosting API, quality server, subprocess, marker      *)
(* file) together with the pure code that surrounds it; the outcome of the *)
(* external call is an input drawn with \E.                                *)
(***************************************************************************)
EXTENDS Integers, Sequences, FiniteSets, TLC

\* ---------------------------------------------------------------- bounds
MaxShaLen == 2
MaxFileLen == 3
MaxIssues == 11

\* ------------------------------------------------------ program constants
DisplayLimit == 10
NEW_BRANCH == "auto-fix-sonar-issues"

\* ------------------------------------------------------------ characters
HashChars == {"a"}
Whitespace == {"\n"}
FileChars == HashChars \cup Whitespace

SeqsUpTo(S, n) == UNION {[1..k -> S] : k \in 0..n}
Shas == SeqsUpTo(HashChars, MaxShaLen) \ {<<>>}
FileContents == SeqsUpTo(FileChars, MaxFileLen)
Branches == {"main", "dev"}
Conclusions == {"success", "failure", "cancelled", "None"}

\* ------------------------------------------------------- python values
None == [isNone |-> TRUE, val |-> <<>>]
Some(s) == [isNone |-> FALSE, val |-> s]
NoFile == [exists |-> FALSE, content |-> <<>>]
File(c) == [exists |-> TRUE, content |-> c]
Dict(f) == [kind |-> "dict", val |-> f]
Str(parts) == [kind |-> "str", val |-> parts]
NoResult == [kind |-> "none", val |-> <<>>]
NoSteps == [k \in {} |-> NoResult]

\* str.strip(): drop leading and trailing whitespace
RECURSIVE LStrip(_)
LStrip(s) == IF s # <<>> /\ Head(s) \in Whitespace THEN LStrip(Tail(s)) ELSE s
RECURSIVE RStrip(_)
RStrip(s) == IF s # <<>> /\ s[Len(s)] \in Whitespace
             THEN RStrip(SubSeq(s, 1, Len(s) - 1)) ELSE s
Strip(s) == RStrip(LStrip(s))

\* an exception and its string form str(e)
Exc(call, why) == [call |-> call, why |-> why]
ExcStr(e) == <<e.why, e.call>>

ButLast(s) == SubSeq(s, 1, Len(s) - 1)
Last(s) == s[Len(s)]

VARIABLES
    sha_file,       \* the marker file last_commit.txt: NoFile or File(content)
    effects,        \* what this invocation's git subprocesses did to the clone and its remote
    pc,             \* position of the running operation; "IDLE" between invocations
    stack,          \* the running functions, outermost first
    branch,         \* watch_github_commit's argument, "main" by default
    latest_commit,  \* local of watch_github_commit
    previous_sha,   \* local of watch_github_commit
    latest_run,     \* conclusion of workflows[0], "" before it is read
    steps,          \* local dict of full_auto_fix_pipeline
    result,         \* what the last invocation returned to the transport
    raised,         \* an exception left the last invocation
    log,            \* functions entered and external calls made by the invocation
    fails,          \* function -> the exception one of its external calls raised
    response,       \* the JSON body the quality server answered with, if it did
    start,          \* sha_file and the gated head when the invocation started
    gated           \* the head that last passed the build gate, and its pipeline's fate

vars == <<sha_file, effects, pc, stack, branch, latest_commit, previous_sha, latest_run,
          steps, result, raised, log, fails, response, start, gated>>

NoFails == [f \in {} |-> Exc("", "")]
NoGate == [sha |-> None, allFailed |-> FALSE]
NoResponse == [got |-> FALSE, json |-> <<>>]

Init ==
    /\ sha_file \in {NoFile} \cup {File(c) : c \in FileContents}
    /\ effects = {}
    /\ pc = "IDLE"
    /\ stack = <<>>
    /\ branch = "main"
    /\ latest_commit = None
    /\ previous_sha = None
    /\ latest_run = ""
    /\ steps = NoSteps
    /\ result = NoResult
    /\ raised = FALSE
    /\ log = <<>>
    /\ fails = NoFails
    /\ response = NoResponse
    /\ start = [marker |-> sha_file, gated |-> None]
    /\ gated = NoGate


\* ------------------------------------------------------ control transfer
WATCH == "watch_github_commit"
ISSUES == "get_sonar_issues"
FIXES == "apply_code_fixes"
COMMIT == "commit_and_push"
PR == "raise_pr"
PIPELINE == "full_auto_fix_pipeline"
Tools == {WATCH, ISSUES, FIXES, COMMIT, PR, PIPELINE}

\* the first external call of each function
FirstPc(f) ==
    CASE f = WATCH -> "watch:get_repo"
      [] f = ISSUES -> "issues:requests.get"
      [] f = FIXES -> "fixes:black"
      [] f = COMMIT -> "commit:git checkout"
      [] f = PR -> "pr:get_repo"

\* full_auto_fix_pipeline: the key a step's result is stored under, and the
\* step called after it ("" after the last one)
StepKey(f) ==
    CASE f = ISSUES -> "get_sonar_issues"
      [] f = FIXES -> "apply_fixes"
      [] f = COMMIT -> "commit_push"
      [] f = PR -> "create_pr"
StepAfter(f) ==
    CASE f = ISSUES -> FIXES
      [] f = FIXES -> COMMIT
      [] f = COMMIT -> PR
      [] f = PR -> ""

\* the except clauses
ErrorDict(e) == Dict([error |-> ExcStr(e)])
FixesFailed(e) == Str(<<" Failed to apply code fixes: ", ExcStr(e)>>)
CommitFailed(e) == Str(<<" Git commit/push failed: ", ExcStr(e)>>)
\* mutant: apply_code_fixes without its try/except
HasHandler_FixesUnguarded(f) == f \in {WATCH, ISSUES, COMMIT, PR}
HasHandler(f) == f \in {WATCH, ISSUES, FIXES, COMMIT, PR}
Handler(f, e) ==
    CASE f = FIXES -> FixesFailed(e)
      [] f = COMMIT -> CommitFailed(e)
      [] OTHER -> ErrorDict(e)

\* the results of watch_github_commit
NoNewCommits(sha) == Dict([status |-> " No new commits", latest_commit |-> sha])
NoRun == Dict([status |-> " No recent workflow run found"])
BuildFailed(c) == Dict([status |-> " Build failed or still running", build_status |-> c])
Processed(sha, r) ==
    Dict([status |-> "Build succeeded and commit processed", commit |-> sha,
          pipeline_result |-> r])

IsError(v) ==
    \/ v.kind = "dict" /\ "error" \in DOMAIN v.val
    \/ v.kind = "str" /\ v.val[1] \in {" Failed to apply code fixes: ", " Git commit/push failed: "}
AllFailed(st) == \A k \in DOMAIN st : IsError(st[k])

\* where control goes: the next position, and the functions entered on the way
Ctl(p, stk, st, r, x, g, en) ==
    [pc |-> p, stack |-> stk, steps |-> st, result |-> r, raised |-> x, gated |-> g,
     entered |-> en]

\* the transport receives v
ToTransport(v) == Ctl("IDLE", <<>>, steps, v, FALSE, gated, <<>>)

\* full_auto_fix_pipeline returns st to the callers stk
PipelineReturns(stk, st) ==
    IF stk = <<>>
    THEN Ctl("IDLE", <<>>, st, Dict(st), FALSE, gated, <<>>)
    ELSE Ctl("IDLE", <<>>, st, Processed(latest_commit.val, Dict(st)), FALSE,
             [gated EXCEPT !.allFailed = AllFailed(st)], <<>>)

\* mutant: the pipeline stops at the first step that returned an error
Returns_StopOnError(stk, f, v) ==
    IF stk = <<>>
    THEN ToTransport(v)
    ELSE LET st == (StepKey(f) :> v) @@ steps IN
         IF StepAfter(f) = "" \/ IsError(v)
         THEN PipelineReturns(ButLast(stk), st)
         ELSE Ctl(FirstPc(StepAfter(f)), Append(stk, StepAfter(f)), st, result, FALSE,
                  gated, <<StepAfter(f)>>)

\* function f returns v to the callers stk
Returns(stk, f, v) ==
    IF stk = <<>>
    THEN ToTransport(v)
    ELSE LET st == (StepKey(f) :> v) @@ steps IN
         IF StepAfter(f) = ""
         THEN PipelineReturns(ButLast(stk), st)
         ELSE Ctl(FirstPc(StepAfter(f)), Append(stk, StepAfter(f)), st, result, FALSE,
                  gated, <<StepAfter(f)>>)

\* exception e is raised in the innermost function of stk
RECURSIVE Unwind(_, _)
Unwind(stk, e) ==
    IF stk = <<>>
    THEN Ctl("IDLE", <<>>, steps, NoResult, TRUE, gated, <<>>)
    ELSE IF HasHandler(Last(stk))
    THEN IF Last(stk) = WATCH
         THEN ToTransport(Handler(WATCH, e))
         ELSE Returns(ButLast(stk), Last(stk), Handler(Last(stk), e))
    ELSE Unwind(ButLast(stk), e)

\* the call made at pc is logged, then the functions entered after it
Go(c) ==
    /\ pc' = c.pc
    /\ stack' = c.stack
    /\ steps' = c.steps
    /\ result' = c.result
    /\ raised' = c.raised
    /\ gated' = c.gated
    /\ log' = Append(log, pc) \o c.entered

\* the external call at pc raised e
Raise(e) ==
    /\ Go(Unwind(stack, e))
    /\ fails' = (Last(stack) :> e) @@ fails

\* the external call at pc returned; the function goes on to its next call
Continue(next) ==
    /\ pc' = next
    /\ log' = Append(log, pc)
    /\ UNCHANGED <<stack, steps, result, raised, gated, fails>>

\* the external call at pc returned and the function returns v
Return(v) ==
    /\ Go(Returns(ButLast(stack), Last(stack), v))
    /\ UNCHANGED fails

\* --------------------------------------------------------- invocations
Tool == IF log = <<>> THEN "" ELSE log[1]

\* the transport invokes a tool with branch argument b: a fresh frame, its
\* locals unset, the record of the previous invocation dropped
Enter(b) ==
    /\ pc = "IDLE"
    /\ branch' = b
    /\ latest_commit' = None
    /\ previous_sha' = None
    /\ latest_run' = ""
    /\ steps' = NoSteps
    /\ result' = NoResult
    /\ raised' = FALSE
    /\ fails' = NoFails
    /\ response' = NoResponse
    /\ start' = [marker |-> sha_file, gated |-> gated.sha]
    /\ effects' = {}
    /\ UNCHANGED <<sha_file, gated>>

InvokeWatch ==
    \E b \in Branches :
        /\ Enter(b)
        /\ pc' = FirstPc(WATCH)
        /\ stack' = <<WATCH>>
        /\ log' = <<WATCH>>

InvokeTool(f) ==
    /\ Enter("main")
    /\ pc' = FirstPc(f)
    /\ stack' = <<f>>
    /\ log' = <<f>>

InvokeStep == \E f \in {ISSUES, FIXES, COMMIT, PR} : InvokeTool(f)

InvokePipeline ==
    /\ Enter("main")
    /\ pc' = FirstPc(ISSUES)
    /\ stack' = <<PIPELINE, ISSUES>>
    /\ log' = <<PIPELINE, ISSUES>>

\* ------------------------------------------------- watch_github_commit
GithubErrors == {"BadCredentialsException", "UnknownObjectException"}

\* g.get_repo(GITHUB_REPO)
WatchGetRepo ==
    /\ pc = "watch:get_repo"
    /\ \/ \E why \in GithubErrors : Raise(Exc("get_repo", why))
       \/ Continue("watch:get_branch")
    /\ UNCHANGED <<sha_file, effects, branch, latest_commit, previous_sha, latest_run,
                   response, start>>

\* latest_commit = repo.get_branch(branch).commit.sha
WatchGetBranch ==
    /\ pc = "watch:get_branch"
    /\ \/ /\ Raise(Exc("get_branch", "GithubException"))
          /\ UNCHANGED latest_commit
       \/ \E sha \in Shas :
            /\ latest_commit' = Some(sha)
            /\ Continue("watch:read_marker")
    /\ UNCHANGED <<sha_file, effects, branch, previous_sha, latest_run, response, start>>

\* mutant: the file's text is compared as read, a trailing newline included
LoadPrevious_NoStrip(file) == IF file.exists THEN Some(file.content) ELSE None

\* the previous SHA, as read from sha_file
LoadPrevious(file) == IF file.exists THEN Some(Strip(file.content)) ELSE None

\* mutant: with no marker file the watcher reports that there is nothing new
WatchLoadPrevious_AbsentReturns ==
    /\ pc = "watch:read_marker"
    /\ previous_sha' = LoadPrevious(sha_file)
    /\ IF latest_commit = previous_sha' \/ ~sha_file.exists
       THEN Return(NoNewCommits(latest_commit.val))
       ELSE Continue("watch:get_workflow_runs")
    /\ UNCHANGED <<sha_file, effects, branch, latest_commit, latest_run, response, start>>

\* load the previous SHA and compare
WatchLoadPrevious ==
    /\ pc = "watch:read_marker"
    /\ previous_sha' = LoadPrevious(sha_file)
    /\ IF latest_commit = previous_sha'
       THEN Return(NoNewCommits(latest_commit.val))
       ELSE Continue("watch:get_workflow_runs")
    /\ UNCHANGED <<sha_file, effects, branch, latest_commit, latest_run, response, start>>

\* mutant: the new SHA is saved as soon as a run is found, before its
\* conclusion is looked at
WatchCheckBuild_SavesFirst ==
    /\ pc = "watch:get_workflow_runs"
    /\ \/ /\ Raise(Exc("get_workflow_runs", "GithubException"))
          /\ UNCHANGED <<latest_run, sha_file>>
       \/ /\ Return(NoRun)
          /\ UNCHANGED <<latest_run, sha_file>>
       \/ \E c \in Conclusions :
            /\ latest_run' = c
            /\ sha_file' = File(latest_commit.val)
            /\ IF c # "success"
               THEN Return(BuildFailed(c))
               ELSE /\ pc' = "watch:write_marker"
                    /\ log' = Append(log, pc)
                    /\ gated' = [sha |-> latest_commit, allFailed |-> FALSE]
                    /\ UNCHANGED <<stack, steps, result, raised, fails>>
    /\ UNCHANGED <<effects, branch, latest_commit, previous_sha, response, start>>

\* mutant: only a "failure" conclusion closes the gate, so a run that was
\* cancelled or is still running passes it
WatchCheckBuild_FailureOnly ==
    /\ pc = "watch:get_workflow_runs"
    /\ \/ /\ Raise(Exc("get_workflow_runs", "GithubException"))
          /\ UNCHANGED latest_run
       \/ /\ Return(NoRun)
          /\ UNCHANGED latest_run
       \/ \E c \in Conclusions :
            /\ latest_run' = c
            /\ IF c = "failure"
               THEN Return(BuildFailed(c))
               ELSE /\ pc' = "watch:write_marker"
                    /\ log' = Append(log, pc)
                    /\ gated' = [sha |-> latest_commit, allFailed |-> FALSE]
                    /\ UNCHANGED <<stack, steps, result, raised, fails>>
    /\ UNCHANGED <<sha_file, effects, branch, latest_commit, previous_sha, response, start>>

\* the build gate: repo.get_workflow_runs(branch=branch), workflows[0].conclusion
WatchCheckBuild ==
    /\ pc = "watch:get_workflow_runs"
    /\ \/ /\ Raise(Exc("get_workflow_runs", "GithubException"))
          /\ UNCHANGED latest_run
       \/ /\ Return(NoRun)
          /\ UNCHANGED latest_run
       \/ \E c \in Conclusions :
            /\ latest_run' = c
            /\ IF c # "success"
               THEN Return(BuildFailed(c))
               ELSE /\ pc' = "watch:write_marker"
                    /\ log' = Append(log, pc)
                    /\ gated' = [sha |-> latest_commit, allFailed |-> FALSE]
                    /\ UNCHANGED <<stack, steps, result, raised, fails>>
    /\ UNCHANGED <<sha_file, effects, branch, latest_commit, previous_sha, response, start>>

\* mutant: the new SHA never reaches the file
WatchSave_NotPersisted ==
    /\ pc = "watch:write_marker"
    /\ Continue("watch:full_auto_fix_pipeline")
    /\ UNCHANGED <<sha_file, effects, branch, latest_commit, previous_sha, latest_run,
                   response, start>>

\* with open(sha_file, "w") as f: f.write(latest_commit)
WatchSave ==
    /\ pc = "watch:write_marker"
    /\ sha_file' = File(latest_commit.val)
    /\ Continue("watch:full_auto_fix_pipeline")
    /\ UNCHANGED <<effects, branch, latest_commit, previous_sha, latest_run, response, start>>

\* result = full_auto_fix_pipeline()
WatchRunPipeline ==
    /\ pc = "watch:full_auto_fix_pipeline"
    /\ pc' = FirstPc(ISSUES)
    /\ stack' = <<WATCH, PIPELINE, ISSUES>>
    /\ log' = log \o <<PIPELINE, ISSUES>>
    /\ UNCHANGED <<sha_file, effects, branch, latest_commit, previous_sha, latest_run,
                   steps, result, raised, fails, response, start, gated>>

\* ---------------------------------------------------- get_sonar_issues
IssueFields == {"key", "rule", "message", "severity", "type", "component", "line"}
ProjectedFields == {"message", "severity", "type", "component", "line"}
PyNone == <<"None">>

\* the i-th issue of a response; with skip = 1 or 2 every skip-th issue is
\* a file-level one and carries no "line"
RawIssue(i, skip) ==
    [f \in IF skip > 0 /\ i % skip = 0 THEN IssueFields \ {"line"} ELSE IssueFields
        |-> <<f, i>>]
RawIssues(n, skip) == [i \in 1..n |-> RawIssue(i, skip)]

\* the JSON bodies of a 200 response: with n issues, or without the key
Bodies(maxIssues) ==
    {[x \in {} |-> <<>>]} \cup
    {[issues |-> RawIssues(n, skip)] : n \in 0..maxIssues, skip \in 0..2}

\* dict.get(key) and dict.get(key, default)
PyGet(d, k, default) == IF k \in DOMAIN d THEN d[k] ELSE default

Min(a, b) == IF a < b THEN a ELSE b
Project(i) == [f \in ProjectedFields |-> PyGet(i, f, PyNone)]

\* mutant: total counts the entries shown, not the issues received
SonarSummary_CountsShown(body) ==
    LET issues == PyGet(body, "issues", <<>>) IN
    IF issues = <<>>
    THEN Dict([status |-> "No issues found", total |-> 0, issues |-> <<>>])
    ELSE Dict([status |-> "Issues found", total |-> Min(Len(issues), DisplayLimit),
               issues |-> [k \in 1..Min(Len(issues), DisplayLimit) |-> Project(issues[k])]])

\* the summary returned for a successful response
SonarSummary(body) ==
    LET issues == PyGet(body, "issues", <<>>) IN
    IF issues = <<>>
    THEN Dict([status |-> "No issues found", total |-> 0, issues |-> <<>>])
    ELSE Dict([status |-> "Issues found", total |-> Len(issues),
               issues |-> [k \in 1..Min(Len(issues), DisplayLimit) |-> Project(issues[k])]])

HttpErrors == {"ConnectionError", "HTTPError", "JSONDecodeError"}

GetSonarIssues(maxIssues) ==
    /\ pc = "issues:requests.get"
    /\ \/ /\ \E why \in HttpErrors : Raise(Exc("requests.get", why))
          /\ UNCHANGED response
       \/ \E body \in Bodies(maxIssues) :
            /\ response' = [got |-> TRUE, json |-> body]
            /\ Return(SonarSummary(body))
    /\ UNCHANGED <<sha_file, effects, branch, latest_commit, previous_sha, latest_run, start>>

\* ---------------------------------------------------- apply_code_fixes
ProcessErrors == {"CalledProcessError", "FileNotFoundError"}

\* mutant: black's exit status is not checked, isort runs after a failure
FixesBlack_Unchecked ==
    /\ pc = "fixes:black"
    /\ \/ /\ \E why \in ProcessErrors : fails' = (FIXES :> Exc("black", why)) @@ fails
          /\ pc' = "fixes:isort"
          /\ log' = Append(log, pc)
          /\ UNCHANGED <<stack, steps, result, raised, gated>>
       \/ Continue("fixes:isort")
    /\ UNCHANGED <<sha_file, effects, branch, latest_commit, previous_sha, latest_run,
                   response, start>>

FixesBlack ==
    /\ pc = "fixes:black"
    /\ \/ \E why \in ProcessErrors : Raise(Exc("black", why))
       \/ Continue("fixes:isort")
    /\ UNCHANGED <<sha_file, effects, branch, latest_commit, previous_sha, latest_run,
                   response, start>>

FixesIsort ==
    /\ pc = "fixes:isort"
    /\ \/ Raise(Exc("isort", "CalledProcessError"))
       \/ Return(Str(<<" Code formatted using black and isort.">>))
    /\ UNCHANGED <<sha_file, effects, branch, latest_commit, previous_sha, latest_run,
                   response, start>>

\* ----------------------------------------------------- commit_and_push
\* one git subprocess: it fails, or it has its effect and the function goes on
GitStep(here, effect, next) ==
    /\ pc = here
    /\ \/ /\ Raise(Exc(here, "CalledProcessError"))
          /\ UNCHANGED effects
       \/ /\ effects' = effects \cup {effect}
          /\ Continue(next)
    /\ UNCHANGED <<sha_file, branch, latest_commit, previous_sha, latest_run, response, start>>

CommitCheckout == GitStep("commit:git checkout", "branch created", "commit:git add")
CommitAdd == GitStep("commit:git add", "changes staged", "commit:git commit")
CommitCommit == GitStep("commit:git commit", "commit made", "commit:git push")

\* mutant: a failed push deletes the branch that was created
CommitPush_RollsBack ==
    /\ pc = "commit:git push"
    /\ \/ /\ Raise(Exc(pc, "CalledProcessError"))
          /\ effects' = {}
       \/ /\ effects' = effects \cup {"branch pushed"}
          /\ Return(Str(<<" Changes pushed to branch ", NEW_BRANCH, ".">>))
    /\ UNCHANGED <<sha_file, branch, latest_commit, previous_sha, latest_run, response, start>>

\* (the returned text quotes the branch name in backquotes, left out here)
CommitPush ==
    /\ pc = "commit:git push"
    /\ \/ /\ Raise(Exc(pc, "CalledProcessError"))
          /\ UNCHANGED effects
       \/ /\ effects' = effects \cup {"branch pushed"}
          /\ Return(Str(<<" Changes pushed to branch ", NEW_BRANCH, ".">>))
    /\ UNCHANGED <<sha_file, branch, latest_commit, previous_sha, latest_run, response, start>>

\* ------------------------------------------------------------ raise_pr
PrGetRepo ==
    /\ pc = "pr:get_repo"
    /\ \/ Raise(Exc("get_repo", "UnknownObjectException"))
       \/ Continue("pr:create_pull")
    /\ UNCHANGED <<sha_file, effects, branch, latest_commit, previous_sha, latest_run,
                   response, start>>

PrCreatePull ==
    /\ pc = "pr:create_pull"
    /\ \/ Raise(Exc("create_pull", "GithubException"))
       \/ Return(Dict([url |-> "html_url", status |-> " PR created successfully"]))
    /\ UNCHANGED <<sha_file, effects, branch, latest_commit, previous_sha, latest_run,
                   response, start>>

\* ------------------------------------------------------- specifications
MaxPipelineIssues == 1

Next ==
    \/ InvokeWatch
    \/ InvokeStep
    \/ InvokePipeline
    \/ WatchGetRepo
    \/ WatchGetBranch
    \/ WatchLoadPrevious
    \/ WatchCheckBuild
    \/ WatchSave
    \/ WatchRunPipeline
    \/ GetSonarIssues(MaxPipelineIssues)
    \/ FixesBlack
    \/ FixesIsort
    \/ CommitCheckout
    \/ CommitAdd
    \/ CommitCommit
    \/ CommitPush
    \/ PrGetRepo
    \/ PrCreatePull

Spec == Init /\ [][Next]_vars

\* get_sonar_issues alone, over the whole range of responses
NextIssues ==
    \/ InvokeTool(ISSUES)
    \/ GetSonarIssues(MaxIssues)

SpecIssues == Init /\ [][NextIssues]_vars

\* --------------------------------------------- reading the invocation
InLog(x) == \E k \in 1..Len(log) : log[k] = x
Count(x) == Len(SelectSeq(log, LAMBDA e : e = x))
Before(x, y) == \E k \in 1..Len(log) : log[k] = y /\ \E j \in 1..(k - 1) : log[j] = x
IsPrefix(s, t) == Len(s) <= Len(t) /\ s = SubSeq(t, 1, Len(s))

\* the invocation of tool f has returned to the transport
Done(f) == pc = "IDLE" /\ Tool = f

\* the watcher obtained the branch head, and what the marker file held then
HeadKnown == Tool = WATCH /\ ~latest_commit.isNone
StoredHash == Strip(start.marker.content)
HeadIsStored == start.marker.exists /\ StoredHash = latest_commit.val

\* what function f returned in this invocation, NoResult while it has not
Returned(f) ==
    IF Tool = f
    THEN IF pc = "IDLE" /\ ~raised THEN result ELSE NoResult
    ELSE IF f = PIPELINE
    THEN IF Done(WATCH) /\ InLog(PIPELINE) /\ ~raised
         THEN result.val.pipeline_result ELSE NoResult
    ELSE IF InLog(PIPELINE) /\ StepKey(f) \in DOMAIN steps
    THEN steps[StepKey(f)] ELSE NoResult

TypeOK ==
    /\ pc = "IDLE" <=> stack = <<>>
    /\ raised \in BOOLEAN
    /\ sha_file \in {NoFile} \cup {File(c) : c \in FileContents \cup Shas}
    /\ effects \subseteq {"branch created", "changes staged", "commit made", "branch pushed"}
    /\ latest_commit \in {None} \cup {Some(x) : x \in Shas}

\* ---------------------------------------------------------------- claims

\* C1 as stated: when the branch head equals the hash stored in the marker
\* file, the watcher returns {"status": "No new commits", "latest_commit":
\* head}, queries no workflow runs, runs no pipeline and writes no marker.
C1_AsStated ==
    (HeadKnown /\ HeadIsStored /\ InLog("watch:read_marker")) =>
        /\ pc = "IDLE"
        /\ result = Dict([status |-> "No new commits", latest_commit |-> latest_commit.val])
        /\ ~InLog("watch:get_workflow_runs")
        /\ ~InLog(PIPELINE)
        /\ ~InLog("watch:write_marker")
        /\ sha_file = start.marker

\* C1 amended: the same, the status text being " No new commits", with the
\* leading space the code's literal has.
C1_NoNewCommit ==
    (HeadKnown /\ HeadIsStored /\ InLog("watch:read_marker")) =>
        /\ pc = "IDLE"
        /\ result.kind = "dict"
        /\ DOMAIN result.val = {"status", "latest_commit"}
        /\ result.val.status = " No new commits"
        /\ result.val.latest_commit = latest_commit.val
        /\ log = <<WATCH, "watch:get_repo", "watch:get_branch", "watch:read_marker">>
        /\ sha_file = start.marker

C1_Witness ==
    /\ Done(WATCH)
    /\ HeadKnown
    /\ start.marker = File(latest_commit.val \o <<"\n">>)
    /\ result.kind = "dict"
    /\ "latest_commit" \in DOMAIN result.val

\* C2: head differs from the stored marker and the latest run's conclusion
\* is not "success": the watcher returns the build-failed-or-pending result,
\* leaves the marker file as it was and runs no pipeline.
C2_BuildNotSuccessful ==
    (HeadKnown /\ ~HeadIsStored /\ latest_run \notin {"", "success"}) =>
        /\ pc = "IDLE"
        /\ result.kind = "dict"
        /\ DOMAIN result.val = {"status", "build_status"}
        /\ result.val.status = " Build failed or still running"
        /\ result.val.build_status = latest_run
        /\ sha_file = start.marker
        /\ ~InLog("watch:write_marker")
        /\ ~InLog(PIPELINE)

C2_Witness ==
    /\ Done(WATCH)
    /\ HeadKnown
    /\ start.marker.exists
    /\ ~HeadIsStored
    /\ latest_run = "None"
    /\ sha_file = start.marker

\* C3 as stated: no operation raises to its caller, and whenever an external
\* call or subprocess inside it failed, it returns a dictionary with an
\* "error" field holding the exception's string form.
C3_AsStated ==
    (pc = "IDLE" /\ Tool \in Tools /\ DOMAIN fails # {}) =>
        /\ ~raised
        /\ result.kind = "dict"
        /\ "error" \in DOMAIN result.val
        /\ \E f \in DOMAIN fails : result.val.error = ExcStr(fails[f])

\* C3 amended: no operation raises to its caller.  A failed call made by
\* watch_github_commit, get_sonar_issues or raise_pr itself makes that function
\* return a dictionary whose only field, "error", is the exception's string
\* form; a failed subprocess of apply_code_fixes or commit_and_push makes it
\* return a string: its failure prefix, then the exception's string form.
\* full_auto_fix_pipeline returns its four-key mapping with each failed step's
\* result under the step's key, and watch_github_commit passes that mapping on
\* as pipeline_result.
C3_FailuresAreReturned ==
    (pc = "IDLE" /\ Tool \in Tools) =>
        /\ ~raised
        /\ result.kind \in {"dict", "str"}
        /\ \A f \in DOMAIN fails :
            LET r == Returned(f)
                text == <<fails[f].why, fails[f].call>> IN
            /\ f \in {WATCH, ISSUES, PR} =>
                r.kind = "dict" /\ DOMAIN r.val = {"error"} /\ r.val.error = text
            /\ f = FIXES =>
                r.kind = "str" /\ r.val = <<" Failed to apply code fixes: ", text>>
            /\ f = COMMIT =>
                r.kind = "str" /\ r.val = <<" Git commit/push failed: ", text>>
        /\ (Tool = PIPELINE /\ DOMAIN fails # {}) =>
            "error" \notin DOMAIN result.val
        /\ (Tool = WATCH /\ InLog(PIPELINE)) =>
            "error" \notin DOMAIN result.val

C3_Witness ==
    /\ Done(PIPELINE)
    /\ DOMAIN fails = {ISSUES, FIXES, COMMIT, PR}
    /\ fails[COMMIT].call = "commit:git commit"
    /\ result.val["commit_push"].kind = "str"

\* C4: every invocation of full_auto_fix_pipeline enters the four steps once
\* each, in the order issue fetch, fix apply, commit/push, pull request, and
\* returns a mapping with exactly the keys get_sonar_issues, apply_fixes,
\* commit_push, create_pr, whichever steps failed and however many issues
\* were found.
C4_FourSteps ==
    InLog(PIPELINE) =>
        LET entered == SelectSeq(log, LAMBDA e : e \in {ISSUES, FIXES, COMMIT, PR})
            first == SelectSeq(log, LAMBDA e : e \in {"issues:requests.get", "fixes:black",
                                                     "commit:git checkout", "pr:get_repo"})
        IN
        /\ Count(PIPELINE) = 1
        /\ IsPrefix(entered, <<ISSUES, FIXES, COMMIT, PR>>)
        /\ IsPrefix(first, <<"issues:requests.get", "fixes:black",
                             "commit:git checkout", "pr:get_repo">>)
        /\ pc = "IDLE" =>
            /\ entered = <<ISSUES, FIXES, COMMIT, PR>>
            /\ Len(first) = 4
            /\ Returned(PIPELINE).kind = "dict"
            /\ DOMAIN Returned(PIPELINE).val =
                 {"get_sonar_issues", "apply_fixes", "commit_push", "create_pr"}

C4_Witness ==
    /\ Done(PIPELINE)
    /\ DOMAIN fails = {ISSUES, FIXES}
    /\ fails[FIXES].call = "black"
    /\ InLog("commit:git push")
    /\ InLog("pr:create_pull")
    /\ DOMAIN result.val = {"get_sonar_issues", "apply_fixes", "commit_push", "create_pr"}

\* C5: with the marker file absent, whatever head the branch has, the watcher
\* never returns the no-new-commit result and goes on to the build-status
\* check.
C5_AbsentMarkerIsNew ==
    (HeadKnown /\ ~start.marker.exists /\ InLog("watch:read_marker")) =>
        /\ previous_sha.isNone
        /\ pc = "watch:get_workflow_runs" \/ InLog("watch:get_workflow_runs")
        /\ pc = "IDLE" =>
            (result.kind = "dict" /\ "latest_commit" \notin DOMAIN result.val)

C5_Witness ==
    /\ Done(WATCH)
    /\ HeadKnown
    /\ ~start.marker.exists
    /\ latest_run = "failure"
    /\ ~sha_file.exists

\* C6: for a successful response carrying n unresolved issues, get_sonar_issues
\* returns total = n and min(n, 10) entries, the first min(n, 10) issues of
\* the response in response order, each projected to message, severity, type,
\* component and line; for n = 0, total 0 and an empty list, never an error.
C6_IssueSummary ==
    (Done(ISSUES) /\ response.got /\ "issues" \in DOMAIN response.json) =>
        LET raw == response.json.issues
            n == Len(raw)
            shown == IF n < 10 THEN n ELSE 10
            r == result.val IN
        /\ result.kind = "dict"
        /\ DOMAIN r = {"status", "total", "issues"}
        /\ r.total = n
        /\ DOMAIN r.issues = 1..shown
        /\ \A k \in 1..shown :
            /\ DOMAIN r.issues[k] = {"message", "severity", "type", "component", "line"}
            /\ \A f \in DOMAIN r.issues[k] :
                r.issues[k][f] = IF f \in DOMAIN raw[k] THEN raw[k][f] ELSE <<"None">>
        /\ n = 0 => r.total = 0 /\ r.issues = <<>>

C6_Witness ==
    /\ Done(ISSUES)
    /\ response.got
    /\ "issues" \in DOMAIN response.json
    /\ Len(response.json.issues) = MaxIssues
    /\ MaxIssues > DisplayLimit
    /\ Len(result.val.issues) = DisplayLimit
    /\ result.val.total = MaxIssues
    /\ "line" \notin DOMAIN response.json.issues[2]

\* C7: in apply_code_fixes, when the formatting command fails the
\* import-sorting command is not started and the function returns a string
\* that begins with the failure marker and contains the error text; the
\* success string is returned only after both commands ran and neither failed.
C7_FixesAbort ==
    InLog(FIXES) =>
        LET r == Returned(FIXES) IN
        /\ (FIXES \in DOMAIN fails /\ fails[FIXES].call = "black") =>
            /\ ~InLog("fixes:isort")
            /\ pc # "fixes:isort"
            /\ (Tool = FIXES => pc = "IDLE")
            /\ r.kind = "str"
            /\ Len(r.val) = 2
            /\ r.val[1] = " Failed to apply code fixes: "
            /\ r.val[2] = <<fails[FIXES].why, "black">>
        /\ (r.kind = "str" /\ r.val = <<" Code formatted using black and isort.">>) =>
            /\ Before("fixes:black", "fixes:isort")
            /\ FIXES \notin DOMAIN fails
        /\ (r.kind = "str" /\ FIXES \notin DOMAIN fails) =>
            r.val = <<" Code formatted using black and isort.">>

C7_Witness ==
    /\ Done(FIXES)
    /\ FIXES \in DOMAIN fails
    /\ fails[FIXES] = [call |-> "black", why |-> "CalledProcessError"]
    /\ result.val[1] = " Failed to apply code fixes: "

\* C8: in an invocation of watch_github_commit the marker file is written at
\* most once and the pipeline is invoked at most once, the write first, and
\* only after the head was found different from the stored marker and the
\* latest run's conclusion was "success"; on every other path neither happens
\* and the marker file is as it was; the watcher is only ever in IDLE,
\* CHECK_COMMIT, CHECK_BUILD or RUN_PIPELINE, and it is never stuck outside IDLE.
WatchPhase ==
    CASE pc = "IDLE" -> "IDLE"
      [] pc \in {"watch:get_repo", "watch:get_branch", "watch:read_marker"} -> "CHECK_COMMIT"
      [] pc = "watch:get_workflow_runs" -> "CHECK_BUILD"
      [] OTHER -> "RUN_PIPELINE"

C8_WriteAndPipelineOnce ==
    Tool = WATCH =>
        /\ Count("watch:write_marker") <= 1
        /\ Count(PIPELINE) <= 1
        /\ InLog("watch:write_marker") =>
            /\ latest_commit # previous_sha
            /\ ~HeadIsStored
            /\ latest_run = "success"
            /\ Before("watch:read_marker", "watch:get_workflow_runs")
            /\ Before("watch:get_workflow_runs", "watch:write_marker")
            /\ sha_file = File(latest_commit.val)
        /\ ~InLog("watch:write_marker") => sha_file = start.marker
        /\ InLog(PIPELINE) => Before("watch:write_marker", PIPELINE)
        /\ WatchPhase = "RUN_PIPELINE" =>
            (latest_run = "success" /\ latest_commit # previous_sha)
        /\ pc = "IDLE" =>
            /\ InLog("watch:write_marker") <=> InLog(PIPELINE)
            /\ InLog(PIPELINE) <=>
                (result.kind = "dict" /\ "pipeline_result" \in DOMAIN result.val)
        /\ pc # "IDLE" => ENABLED Next
        /\ Len(log) <= 20

C8_Witness ==
    /\ Done(WATCH)
    /\ start.marker.exists
    /\ sha_file # start.marker
    /\ Count("watch:write_marker") = 1
    /\ Count(PIPELINE) = 1
    /\ "pipeline_result" \in DOMAIN result.val

\* C9: commit_and_push runs create branch, stage all, commit, push in that
\* order; when one of them fails no later one is run, the failure is returned
\* as an error string, and what the completed steps did stays done (a branch
\* created but not pushed still exists).
GitCalls == <<"commit:git checkout", "commit:git add", "commit:git commit", "commit:git push">>
GitEffects == <<"branch created", "changes staged", "commit made", "branch pushed">>

C9_CommitAndPush ==
    InLog(COMMIT) =>
        LET ran == SelectSeq(log, LAMBDA e : \E k \in 1..4 : e = GitCalls[k])
            failed == COMMIT \in DOMAIN fails
            r == Returned(COMMIT) IN
        /\ IsPrefix(ran, GitCalls)
        /\ \A k \in 1..Len(ran) :
            (failed /\ k = Len(ran)) \/ GitEffects[k] \in effects
        /\ failed =>
            /\ ran # <<>>
            /\ fails[COMMIT].call = ran[Len(ran)]
            /\ pc \notin {GitCalls[k] : k \in 1..4}
            /\ r.kind = "str"
            /\ r.val = <<" Git commit/push failed: ", <<fails[COMMIT].why, fails[COMMIT].call>>>>
        /\ (r.kind = "str" /\ ~failed) =>
            /\ ran = GitCalls
            /\ r.val[1] = " Changes pushed to branch "

C9_Witness ==
    /\ Done(COMMIT)
    /\ COMMIT \in DOMAIN fails
    /\ fails[COMMIT].call = "commit:git push"
    /\ "branch created" \in effects
    /\ "branch pushed" \notin effects
    /\ result.kind = "str"

====
